---- MODULE Spec2Model ----
(***************************************************************************)
(* Model of src/ocr_gemini.py: one run of main() over a directory of       *)
(* images.  A run is a single sequential thread; each action below is one  *)
(* step of that thread, and pc is its position in main()/perform_ocr().    *)
(*                                                                         *)
(* File names are sequences of code points, so that str.lower(),           *)
(* str.endswith() and the code point order used by sorted() are computed   *)
(* as Python computes them.                                                *)
(*                                                                         *)
(* Environment: Image.open and model.generate_content may fail at any      *)
(* call; a directory entry that is a directory can never be opened as an   *)
(* image; os.listdir, os.makedirs and the final open(..., "w") succeed.    *)
(***************************************************************************)
EXTENDS Integers, Sequences, FiniteSets, TLC

\* ------------------------------------------------------------------ bounds
\* Largest number of entries in the input directory.
MaxEntries == 4

\* ------------------------------------------------------------- file names
\* "a.jpg", "b.jpeg", "c.png", "d.JPG", "B.jpg", "jpg" as code points.
NameAJpg  == <<97, 46, 106, 112, 103>>
NameBJpeg == <<98, 46, 106, 112, 101, 103>>
NameCPng  == <<99, 46, 112, 110, 103>>
NameDJPG  == <<100, 46, 74, 80, 71>>
NameUpB   == <<66, 46, 106, 112, 103>>
NameBare  == <<106, 112, 103>>
Names == {NameAJpg, NameBJpeg, NameCPng, NameDJPG, NameUpB, NameBare}

\* ".jpg" and ".jpeg", the suffixes of line 94.
ExtJpg  == <<46, 106, 112, 103>>
ExtJpeg == <<46, 106, 112, 101, 103>>

\* str.lower() on one code point (ASCII letters).
LowerChar(c) == IF c >= 65 /\ c <= 90 THEN c + 32 ELSE c

\* str.lower()
Lower(s) == [k \in 1..Len(s) |-> LowerChar(s[k])]

\* str.endswith(suffix)
EndsWith(s, suffix) ==
    /\ Len(s) >= Len(suffix)
    /\ SubSeq(s, Len(s) - Len(suffix) + 1, Len(s)) = suffix

\* filename.lower().endswith((".jpg", ".jpeg"))
IsEligibleNoLower(filename) ==
    EndsWith(filename, ExtJpg) \/ EndsWith(filename, ExtJpeg)

IsEligible(filename) ==
    EndsWith(Lower(filename), ExtJpg) \/ EndsWith(Lower(filename), ExtJpeg)

\* Python's str.__lt__: compare code point by code point, a proper prefix
\* is smaller.
RECURSIVE StrLess(_, _)
StrLess(a, b) ==
    IF b = <<>> THEN FALSE
    ELSE IF a = <<>> THEN TRUE
    ELSE IF Head(a) # Head(b) THEN Head(a) < Head(b)
    ELSE StrLess(Tail(a), Tail(b))

\* sorted(names): repeatedly take the smallest remaining name.
RECURSIVE Sorted(_)
Sorted(S) ==
    IF S = {} THEN <<>>
    ELSE LET x == CHOOSE y \in S : \A z \in S \ {y} : StrLess(y, z)
         IN  <<x>> \o Sorted(S \ {x})

\* ----------------------------------------------------------- credentials
\* Python's None for an optional string; "" is the empty string.
None == "None"
KeyValues == {None, "", "K"}
EnvValues == {None, "", "E"}
DotenvValues == {None, "", "D"}

\* `not api_key`
Falsy(v) == v = None \/ v = ""

\* load_dotenv(): a variable of the file is set in os.environ unless
\* os.environ already has it (override is off).
LoadDotenv(env, file) == IF env = None THEN file ELSE env

\* The key setup_gemini uses: the argument unless it is None, in which
\* case os.getenv('GEMINI_API_KEY') after load_dotenv().
ResolveKey(arg, env) == IF arg = None THEN env ELSE arg

\* ------------------------------------------------------------------ paths
ImagesDirectory == "imgs"
DefaultOut == "imgs/ocr_results.json"
OutValues == {None, "", "out/r.json", "r.json"}
Paths == {DefaultOut, "out/r.json", "r.json"}
Dirs == {"imgs", "out"}

\* os.path.join(images_directory, "ocr_results.json")
JoinResults(dir) == IF dir = "imgs" THEN DefaultOut ELSE "ocr_results.json"

\* os.path.dirname(path); "" is the working directory.
Dirname(path) ==
    CASE path = "imgs/ocr_results.json" -> "imgs"
      [] path = "out/r.json" -> "out"
      [] OTHER -> ""

\* out_file = args.out_file or os.path.join(images_directory, ...)
OutFileAlwaysDefault(arg) == JoinResults(ImagesDirectory)

OutFile(arg) == IF Falsy(arg) THEN JoinResults(ImagesDirectory) ELSE arg

\* ---------------------------------------------------------------- results
Texts == {"t1", "t2"}
Absent == <<"absent", <<>>>>
Old == <<"old", <<>>>>
Json(results) == <<"json", results>>

\* a dict that puts a new key first
DictSetFront(d, k, v) == <<<<k, v>>>> \o d

\* all_results[filename] = result on an insertion-ordered dict
RECURSIVE DictSet(_, _, _)
DictSet(d, k, v) ==
    IF d = <<>> THEN <<<<k, v>>>>
    ELSE IF Head(d)[1] = k THEN <<<<k, v>>>> \o Tail(d)
    ELSE <<Head(d)>> \o DictSet(Tail(d), k, v)

Keys(d) == [k \in 1..Len(d) |-> d[k][1]]

VARIABLES
    entries,      \* names in images_directory
    subdirs,      \* the entries that are directories, not files
    api_key,      \* positional api_key argument
    out_arg,      \* --out argument
    environ,      \* os.environ['GEMINI_API_KEY']
    dotenv,       \* GEMINI_API_KEY entry of the .env file
    dirs,         \* directories that exist
    files,        \* content of each output path
    pc,           \* position of the run
    exit_code,    \* "running", "exit0" or "exit1"
    err,          \* which fatal error was reported
    filenames,    \* sorted(os.listdir(images_directory))
    idx,          \* position of the for loop in filenames
    image,        \* the image opened by the current perform_ocr
    model,        \* key the model was configured with
    inflight,     \* images whose generate_content call has not returned
    result,       \* value returned by the current perform_ocr
    all_results,  \* the dict of main
    listed,       \* number of os.listdir calls
    opened,       \* Image.open calls, in order
    lookups,      \* number of setup_gemini calls
    calls,        \* generate_content calls, in order
    returned,     \* generate_content calls that returned a response
    failed,       \* files whose Image.open or generate_content raised
    mkdirs,       \* os.makedirs calls: <<directory, whether it was missing>>
    writes        \* writes of the output, in order

inputs == <<entries, subdirs, api_key, out_arg, dotenv>>
ctl == <<pc, exit_code, err>>
loop == <<filenames, idx>>
ocr == <<image, model, inflight, result>>
fs == <<dirs, files>>
logs == <<listed, opened, lookups, calls, returned, failed, mkdirs, writes>>
vars == <<inputs, environ, ctl, loop, ocr, fs, all_results, logs>>

NoImage == <<>>
NoModel == "NoModel"
NoResult == "NoResult"

Init ==
    /\ entries \in {S \in SUBSET Names : Cardinality(S) <= MaxEntries}
    /\ subdirs \in SUBSET entries
    /\ api_key \in KeyValues
    /\ out_arg \in OutValues
    /\ environ \in EnvValues
    /\ dotenv \in DotenvValues
    /\ dirs \in SUBSET Dirs
    /\ ("imgs" \notin dirs => entries = {})
    /\ \E pre \in BOOLEAN :
         files = [p \in Paths |->
                    IF pre /\ Dirname(p) \in dirs \cup {""} THEN Old ELSE Absent]
    /\ pc = "start"
    /\ exit_code = "running"
    /\ err = "none"
    /\ filenames = <<>>
    /\ idx = 1
    /\ image = NoImage
    /\ model = NoModel
    /\ inflight = {}
    /\ result = NoResult
    /\ all_results = <<>>
    /\ listed = 0
    /\ opened = <<>>
    /\ lookups = 0
    /\ calls = <<>>
    /\ returned = <<>>
    /\ failed = <<>>
    /\ mkdirs = <<>>
    /\ writes = <<>>

\* sys.exit(1) after the diagnostic of kind e
Fatal(e) ==
    /\ pc' = "exited"
    /\ exit_code' = "exit1"
    /\ err' = e

\* os.path.isdir(images_directory)
IsDirAlways(d) == TRUE

IsDir(d) == d \in dirs

\* lines 86-88: the directory must exist
CheckDirFail ==
    /\ pc = "start"
    /\ ~IsDir(ImagesDirectory)
    /\ Fatal("dir")
    /\ UNCHANGED <<inputs, environ, loop, ocr, fs, all_results, logs>>

\* lines 86-92
CheckDirOk ==
    /\ pc = "start"
    /\ IsDir(ImagesDirectory)
    /\ pc' = "list"
    /\ all_results' = <<>>
    /\ UNCHANGED <<inputs, environ, exit_code, err, loop, ocr, fs, logs>>

\* line 93: sorted(os.listdir(images_directory))
ListDir ==
    /\ pc = "list"
    /\ filenames' = Sorted(entries)
    /\ idx' = 1
    /\ listed' = listed + 1
    /\ pc' = "loop"
    /\ UNCHANGED <<inputs, environ, exit_code, err, ocr, fs, all_results,
                   opened, lookups, calls, returned, failed, mkdirs, writes>>

\* lines 93-94: an entry that fails the extension test is passed over
LoopSkip ==
    /\ pc = "loop"
    /\ idx <= Len(filenames)
    /\ ~IsEligible(filenames[idx])
    /\ idx' = idx + 1
    /\ UNCHANGED <<inputs, environ, ctl, filenames, ocr, fs, all_results, logs>>

\* lines 94-100: perform_ocr is entered for an eligible entry
LoopEnter ==
    /\ pc = "loop"
    /\ idx <= Len(filenames)
    /\ IsEligible(filenames[idx])
    /\ pc' = "open"
    /\ UNCHANGED <<inputs, environ, exit_code, err, loop, ocr, fs,
                   all_results, logs>>

\* line 93: the listing is exhausted
LoopExit ==
    /\ pc = "loop"
    /\ idx > Len(filenames)
    /\ pc' = "mkdir"
    /\ UNCHANGED <<inputs, environ, exit_code, err, loop, ocr, fs,
                   all_results, logs>>

\* line 44: Image.open(image_path) returns an image
OpenOk ==
    /\ pc = "open"
    /\ filenames[idx] \notin subdirs
    /\ opened' = Append(opened, filenames[idx])
    /\ image' = filenames[idx]
    /\ pc' = "setup"
    /\ UNCHANGED <<inputs, environ, exit_code, err, loop, model, inflight,
                   result, fs, all_results, listed, lookups, calls, returned, failed,
                   mkdirs, writes>>

\* lines 44, 59-64: Image.open raises (missing, unreadable, a directory)
OpenFail ==
    /\ pc = "open"
    /\ opened' = Append(opened, filenames[idx])
    /\ failed' = Append(failed, filenames[idx])
    /\ Fatal("image")
    /\ UNCHANGED <<inputs, environ, loop, ocr, fs, all_results, listed,
                   lookups, calls, returned, mkdirs, writes>>

\* lines 15-28, 47: setup_gemini(api_key); a ValueError is caught at line 62
SetupGemini ==
    /\ pc = "setup"
    /\ lookups' = lookups + 1
    /\ environ' = LoadDotenv(environ, dotenv)
    /\ LET key == ResolveKey(api_key, environ')
       IN  IF Falsy(key)
           THEN /\ Fatal("cred")
                /\ model' = model
           ELSE /\ model' = key
                /\ pc' = "generate"
                /\ UNCHANGED <<exit_code, err>>
    /\ UNCHANGED <<inputs, loop, image, inflight, result, fs, all_results,
                   listed, opened, calls, returned, failed, mkdirs, writes>>

\* line 51: model.generate_content([prompt, image]) is issued
CallStart ==
    /\ pc = "generate"
    /\ calls' = Append(calls, image)
    /\ inflight' = inflight \cup {image}
    /\ pc' = "await"
    /\ UNCHANGED <<inputs, environ, exit_code, err, loop, image, model,
                   result, fs, all_results, listed, opened, lookups, returned, failed,
                   mkdirs, writes>>

\* lines 51-57, 100-101: the call returns, perform_ocr returns
\* response.text and main stores it: all_results[filename] = result
CallReturn ==
    /\ pc = "await"
    /\ \E text \in Texts :
         /\ result' = text
         /\ all_results' = DictSet(all_results, filenames[idx], text)
    /\ inflight' = inflight \ {image}
    /\ returned' = Append(returned, image)
    /\ image' = NoImage
    /\ idx' = idx + 1
    /\ pc' = "loop"
    /\ UNCHANGED <<inputs, environ, exit_code, err, filenames, model, fs,
                   listed, opened, lookups, calls, failed, mkdirs, writes>>

\* a failing call that is passed over: the loop goes on to the next file
CallFailSkip ==
    /\ pc = "await"
    /\ inflight' = inflight \ {image}
    /\ failed' = Append(failed, image)
    /\ image' = NoImage
    /\ idx' = idx + 1
    /\ pc' = "loop"
    /\ UNCHANGED <<inputs, environ, exit_code, err, filenames, model, result,
                   fs, all_results, listed, opened, lookups, calls, returned,
                   mkdirs, writes>>

\* lines 51, 62-64: the call (or response.text) raises
CallFail ==
    /\ pc = "await"
    /\ inflight' = inflight \ {image}
    /\ failed' = Append(failed, image)
    /\ Fatal("remote")
    /\ UNCHANGED <<inputs, environ, loop, image, model, result, fs,
                   all_results, listed, opened, lookups, calls, returned,
                   mkdirs, writes>>

\* lines 109-111: os.makedirs(out_dir, exist_ok=True) unless out_dir is ""
MakeDirs ==
    /\ pc = "mkdir"
    /\ LET out_dir == Dirname(OutFile(out_arg))
       IN  IF out_dir # ""
           THEN /\ dirs' = dirs \cup {out_dir}
                /\ mkdirs' = Append(mkdirs, <<out_dir, out_dir \notin dirs>>)
           ELSE UNCHANGED <<dirs, mkdirs>>
    /\ pc' = "write"
    /\ UNCHANGED <<inputs, environ, exit_code, err, loop, ocr, files,
                   all_results, listed, opened, lookups, calls, returned, failed, writes>>

\* a writer that leaves the file alone when there is nothing to write
WriteFileSkipEmpty ==
    /\ pc = "write"
    /\ IF all_results = <<>>
       THEN UNCHANGED <<files, writes>>
       ELSE /\ files' = [files EXCEPT ![OutFile(out_arg)] = Json(all_results)]
            /\ writes' = Append(writes, OutFile(out_arg))
    /\ pc' = "done"
    /\ exit_code' = "exit0"
    /\ UNCHANGED <<inputs, environ, err, loop, ocr, dirs, all_results, listed,
                   opened, lookups, calls, returned, failed, mkdirs>>

\* lines 112-116: json.dump(all_results) to out_file; main returns
WriteFile ==
    /\ pc = "write"
    /\ Dirname(OutFile(out_arg)) \in dirs \cup {""}
    /\ files' = [files EXCEPT ![OutFile(out_arg)] = Json(all_results)]
    /\ writes' = Append(writes, OutFile(out_arg))
    /\ pc' = "done"
    /\ exit_code' = "exit0"
    /\ UNCHANGED <<inputs, environ, err, loop, ocr, dirs, all_results, listed,
                   opened, lookups, calls, returned, failed, mkdirs>>

Next ==
    \/ CheckDirFail
    \/ CheckDirOk
    \/ ListDir
    \/ LoopSkip
    \/ LoopEnter
    \/ LoopExit
    \/ OpenOk
    \/ OpenFail
    \/ SetupGemini
    \/ CallStart
    \/ CallReturn
    \/ CallFail
    \/ MakeDirs
    \/ WriteFile

Spec == Init /\ [][Next]_vars

\* ------------------------------------------------------------ properties
\* What the claims expect, written down independently of the operators
\* above: the eligible names of Names in ascending code point order
\* ("B.jpg" < "a.jpg" < "b.jpeg" < "d.JPG"), and the output path.
ExpectedOrder == <<NameUpB, NameAJpg, NameBJpeg, NameDJPG>>

InEntries(n) == n \in entries

Eligibles == SelectSeq(ExpectedOrder, InEntries)

IsPrefix(s, t) == Len(s) <= Len(t) /\ s = SubSeq(t, 1, Len(s))

InSeq(s, x) == \E k \in 1..Len(s) : s[k] = x

ExpectedOut ==
    IF out_arg = None \/ out_arg = "" THEN "imgs/ocr_results.json" ELSE out_arg

ExpectedParent ==
    CASE ExpectedOut = "imgs/ocr_results.json" -> "imgs"
      [] ExpectedOut = "out/r.json" -> "out"
      [] ExpectedOut = "r.json" -> ""

Untouched == \A p \in Paths : files[p] = Old \/ files[p] = Absent

NoCredential == api_key = None /\ Falsy(environ) /\ Falsy(dotenv)

\* C1: once Image.open or the inference call has failed for an eligible
\* image, the run is over with exit code 1, nothing more happens, and the
\* output was never written: no write, every output path as it was before
\* the run, whatever had been collected in all_results.
C1_FailureAborts ==
    failed # <<>> =>
        /\ pc = "exited"
        /\ exit_code = "exit1"
        /\ Len(failed) = 1
        /\ writes = <<>>
        /\ mkdirs = <<>>
        /\ Untouched
        /\ ~ENABLED Next

\* the call for the second of three images failed, one result was held and
\* a file was already present at the output path
C1_Witness ==
    /\ Len(Eligibles) = 3
    /\ failed = <<Eligibles[2]>>
    /\ err = "remote"
    /\ Len(all_results) = 1
    /\ files[ExpectedOut] = Old

\* C2 (as claimed): with no credential, every run over an existing
\* directory ends with exit code 1 and makes no remote call.
C2_NoCredentialExits1 ==
    (NoCredential /\ "imgs" \in dirs) =>
        /\ calls = <<>>
        /\ exit_code # "exit0"
        /\ pc \notin {"mkdir", "write", "done"}

\* C3: while nothing has failed the inference calls are a prefix of the
\* eligible entries in ascending order, and a run that completes has called
\* exactly those, once each, and holds a result for exactly those; for
\* a.jpg, b.jpeg, c.png, d.JPG the calls are a.jpg, b.jpeg, d.JPG.
C3_CallsAreSortedEligibles ==
    /\ failed = <<>> => IsPrefix(calls, Eligibles)
    /\ pc = "done" =>
         /\ calls = Eligibles
         /\ Keys(all_results) = Eligibles
         /\ entries = {NameAJpg, NameBJpeg, NameCPng, NameDJPG}
              => calls = <<NameAJpg, NameBJpeg, NameDJPG>>

C3_Witness ==
    /\ pc = "done"
    /\ entries = {NameAJpg, NameBJpeg, NameCPng, NameDJPG}
    /\ calls = <<NameAJpg, NameBJpeg, NameDJPG>>

\* C4 (as claimed): after setup_gemini has run, the model is configured
\* with the explicit key if that is non-empty, otherwise with a non-empty
\* GEMINI_API_KEY, and only otherwise the configuration error is raised.
C4_ResolverFallsBackOnEmpty ==
    lookups > 0 =>
        IF ~Falsy(api_key) THEN model = api_key /\ err # "cred"
        ELSE IF ~Falsy(environ) THEN model = environ /\ err # "cred"
        ELSE model = NoModel /\ err = "cred"

\* C5: a run over an existing directory without entries makes no inference
\* call, never takes a fatal path, never enters the loop body and is never
\* stuck short of the end; at the end the exit code is 0 and the empty
\* object has been written to the output file, whatever the credentials.
C5_EmptyDirectory ==
    (entries = {} /\ "imgs" \in dirs) =>
        /\ calls = <<>>
        /\ opened = <<>>
        /\ lookups = 0
        /\ exit_code # "exit1"
        /\ pc \in {"start", "list", "loop", "mkdir", "write", "done"}
        /\ idx = 1
        /\ pc # "done" => ENABLED Next
        /\ pc = "done" => /\ exit_code = "exit0"
                          /\ writes = <<ExpectedOut>>
                          /\ files[ExpectedOut] = Json(<<>>)

C5_Witness ==
    /\ entries = {}
    /\ NoCredential
    /\ pc = "done"
    /\ files[ExpectedOut] = Json(<<>>)

\* C6: all_results holds exactly the files whose call has returned, in the
\* order they returned, which is a prefix of the sorted eligible names; a
\* call starts only when every earlier call has returned and been
\* recorded; at most one call is in flight; what is written has all the
\* eligible names as keys, in sorted order.
C6_ResultSetIsPrefix ==
    /\ Keys(all_results) = returned
    /\ IsPrefix(returned, Eligibles)
    /\ Cardinality(inflight) <= 1
    /\ IsPrefix(returned, calls)
    /\ Len(calls) <= Len(returned) + 1
    /\ inflight # {} => Len(calls) = Len(returned) + 1
    /\ writes # <<>> =>
         /\ Keys(all_results) = Eligibles
         /\ files[writes[1]] = Json(all_results)

\* the third call is in flight and the first two results are recorded
C6_Witness ==
    /\ Len(all_results) = 2
    /\ Cardinality(inflight) = 1
    /\ Len(calls) = 3

\* C7: when images_directory is not a directory the run ends with exit
\* code 1 straight from the check: nothing is listed, opened, looked up,
\* called, created or written.
C7_MissingDirectory ==
    "imgs" \notin dirs =>
        /\ pc \in {"start", "exited"}
        /\ pc = "exited" => exit_code = "exit1" /\ err = "dir"
        /\ exit_code # "exit0"
        /\ listed = 0
        /\ opened = <<>>
        /\ lookups = 0
        /\ calls = <<>>
        /\ mkdirs = <<>>
        /\ writes = <<>>
        /\ Untouched

C7_Witness ==
    /\ "imgs" \notin dirs
    /\ pc = "exited"
    /\ exit_code = "exit1"

\* C8 (as claimed): a successful run writes to the default path when --out
\* is omitted and to the literal --out value whenever one is given.
C8_LiteralOut ==
    pc = "done" =>
        writes = <<IF out_arg = None THEN "imgs/ocr_results.json" ELSE out_arg>>

\* C8 (amended): a successful run writes to the default path when --out is
\* omitted or empty and to the literal --out value otherwise; the parent
\* directory exists before the write, and there is one write, made after
\* the last inference call has returned.
C8_OutputPath ==
    /\ Len(writes) <= 1
    /\ pc = "write" => ExpectedParent \in dirs \cup {""}
    /\ pc = "done" =>
         /\ writes = <<ExpectedOut>>
         /\ files[ExpectedOut] = Json(all_results)
    /\ writes # <<>> =>
         /\ pc = "done"
         /\ ExpectedParent \in dirs \cup {""}
         /\ inflight = {}
         /\ calls = returned
         /\ Len(returned) = Len(Eligibles)

\* --out names a file in a directory that did not exist
C8_Witness ==
    /\ pc = "done"
    /\ out_arg = "out/r.json"
    /\ mkdirs = <<<<"out", TRUE>>>>
    /\ writes = <<"out/r.json">>
    /\ Len(calls) >= 2

\* C9 (as claimed): when no credential can be resolved no image is ever
\* opened and the fatal error is never the image-access error.
C9_CredentialBeforeOpen ==
    NoCredential => opened = <<>> /\ err # "image"

\* C10 (as claimed): an entry that is a directory is never handed to
\* perform_ocr: it is neither opened nor the cause of a failure.
C10_SubdirectoriesFiltered ==
    \A n \in subdirs : ~InSeq(opened, n) /\ ~InSeq(failed, n)

====
